---- MODULE Spec2Model ----
(***************************************************************************)
(* The Source 1 evaluator with syntactic analysis                          *)
(* (src/src/evaluators/source-1-syntactic-analysis.js) as a state machine. *)
(*                                                                         *)
(* eval_toplevel analyses the program once (analyze: a pure function from  *)
(* a syntax tree to an executable) and then runs the executable.  The      *)
(* host's call stack is explicit: ctl is the executable about to run (or   *)
(* the value it has just returned) and stack holds, innermost first, the   *)
(* closures that wait for that value.  Frames are mutable (set_head) and   *)
(* shared by reference, so they live in the heap frames and an             *)
(* environment is the list of the ids of its frames, innermost first.      *)
(***************************************************************************)
EXTENDS Integers, Sequences, FiniteSets, TLC

(***************************************************************************)
(* Host values.  k is the host's type of the value, v its payload.         *)
(***************************************************************************)
Num(n) == [k |-> "number", v |-> n]
Bool(b) == [k |-> "boolean", v |-> b]
Str(s) == [k |-> "string", v |-> s]
Null == [k |-> "null", v |-> 0]
Undefined == [k |-> "undefined", v |-> 0]

is_value(x) == "k" \in DOMAIN x
is_number(x) == is_value(x) /\ x.k = "number"
is_string(x) == is_value(x) /\ x.k = "string"
is_boolean(x) == is_value(x) /\ x.k = "boolean"
is_pair(x) == "tag" \in DOMAIN x

(***************************************************************************)
(* Syntax trees: a literal is the host value itself, every other node is a *)
(* tagged list.                                                            *)
(***************************************************************************)
Name(n) == [tag |-> "name", name |-> n]
Const(n, e) == [tag |-> "constant_declaration", name |-> Name(n), value |-> e]
Cond(p, c, a) == [tag |-> "conditional_expression", pred |-> p, cons |-> c, alt |-> a]
Fun(params, b) == [tag |-> "function_definition",
                   parameters |-> [i \in 1..Len(params) |-> Name(params[i])],
                   body |-> b]
make_sequence(stmts) == [tag |-> "sequence", stmts |-> stmts]
make_block(stmt) == [tag |-> "block", body |-> stmt]
Ret(e) == [tag |-> "return_statement", expr |-> e]
App(f, args) == [tag |-> "application", operator |-> f, operands |-> args]

is_self_evaluating(stmt) == is_number(stmt) \/ is_string(stmt) \/ is_boolean(stmt)
is_tagged_list(stmt, the_tag) == is_pair(stmt) /\ stmt.tag = the_tag

is_name(stmt) == is_tagged_list(stmt, "name")
name_of_name(stmt) == stmt.name

is_constant_declaration(stmt) == is_tagged_list(stmt, "constant_declaration")
constant_declaration_name(stmt) == stmt.name.name
constant_declaration_value(stmt) == stmt.value

is_conditional_expression(stmt) == is_tagged_list(stmt, "conditional_expression")
cond_expr_pred(stmt) == stmt.pred
cond_expr_cons(stmt) == stmt.cons
cond_expr_alt(stmt) == stmt.alt

is_function_definition(stmt) == is_tagged_list(stmt, "function_definition")
function_definition_parameters(stmt) == stmt.parameters
function_definition_body(stmt) == stmt.body

is_sequence(stmt) == is_tagged_list(stmt, "sequence")
sequence_statements(stmt) == stmt.stmts
is_empty_sequence(stmts) == stmts = << >>
first_statement(stmts) == Head(stmts)
rest_statements(stmts) == Tail(stmts)

is_application(stmt) == is_tagged_list(stmt, "application")
operator(stmt) == stmt.operator
operands(stmt) == stmt.operands

is_return_statement(stmt) == is_tagged_list(stmt, "return_statement")
return_statement_expression(stmt) == stmt.expr

is_block(stmt) == is_tagged_list(stmt, "block")
block_body(stmt) == stmt.body

(***************************************************************************)
(* error(...) throws: an operator that can throw yields an error record    *)
(* instead of its result, and every caller passes it on unchanged.         *)
(***************************************************************************)
error(msg, about) == [fn |-> "error", msg |-> msg, about |-> about]
is_error(r) == "fn" \in DOMAIN r /\ r.fn = "error"

DuplicateDeclaration == "multiple declarations of: "
UnknownNodeKind == "Unknown statement type in analyze"
UnboundName == "Unbound name: "
UseBeforeInitialization == "Name used before declaration: "
TooManyArguments == "Too many arguments supplied: "
TooFewArguments == "Too few arguments supplied: "
ReturnOutsideFunction == "return not allowed outside of function definitions"
UnknownFunctionValueKind == "unknown function type in execute_application"
NameNotFound == "internal error: name not found"
HostError == "error"

(***************************************************************************)
(* Local names.  A list of names is wrapped as [fn |-> "list", ...] so     *)
(* that it can be told from a thrown error.                                *)
(***************************************************************************)
list(xs) == [fn |-> "list", items |-> xs]
member(x, ys) == \E i \in 1..Len(ys) : ys[i] = x

RECURSIVE insert_all(_, _)
insert_all(xs, ys) ==
    IF xs = << >>
    THEN list(ys)
    ELSE IF ~member(Head(xs), ys)
         THEN LET rest == insert_all(Tail(xs), ys)
              IN  IF is_error(rest) THEN rest
                  ELSE list(<<Head(xs)>> \o rest.items)
         ELSE error(DuplicateDeclaration, Head(xs))

RECURSIVE local_names(_)
local_names(stmt) ==
    IF is_sequence(stmt)
    THEN LET stmts == sequence_statements(stmt)
         IN  IF is_empty_sequence(stmts)
             THEN list(<< >>)
             ELSE LET firsts == local_names(first_statement(stmts))
                      rests == local_names(make_sequence(rest_statements(stmts)))
                  IN  IF is_error(firsts) THEN firsts
                      ELSE IF is_error(rests) THEN rests
                      ELSE insert_all(firsts.items, rests.items)
    ELSE IF is_constant_declaration(stmt)
         THEN list(<<constant_declaration_name(stmt)>>)
         ELSE list(<< >>)

no_value_yet == [k |-> "no_value_yet", v |-> 0]

(***************************************************************************)
(* analyze: the executable of a statement, as the record of what the       *)
(* returned closure has captured; fn names the closure.                    *)
(***************************************************************************)
RECURSIVE analyze(_)

first_error(funs) ==
    LET bad == {i \in 1..Len(funs) : is_error(funs[i])}
    IN  funs[CHOOSE i \in bad : \A j \in bad : i <= j]
any_error(funs) == \E i \in 1..Len(funs) : is_error(funs[i])

analyze_self_evaluating(stmt) == [fn |-> "self_evaluating", stmt |-> stmt]

analyze_name(stmt) == [fn |-> "name", stmt |-> stmt]

analyze_constant_declaration(stmt) ==
    LET name == constant_declaration_name(stmt)
        vfun == analyze(constant_declaration_value(stmt))
    IN  IF is_error(vfun) THEN vfun
        ELSE [fn |-> "constant_declaration", name |-> name, vfun |-> vfun]

analyze_conditional_expression(stmt) ==
    LET pfun == analyze(cond_expr_pred(stmt))
        cfun == analyze(cond_expr_cons(stmt))
        afun == analyze(cond_expr_alt(stmt))
    IN  IF is_error(pfun) THEN pfun
        ELSE IF is_error(cfun) THEN cfun
        ELSE IF is_error(afun) THEN afun
        ELSE [fn |-> "conditional_expression",
              pfun |-> pfun, cfun |-> cfun, afun |-> afun]

analyze_function_definition(stmt) ==
    LET vars == function_definition_parameters(stmt)
        locals == local_names(function_definition_body(stmt))
        body_fun == analyze(function_definition_body(stmt))
    IN  IF is_error(locals) THEN locals
        ELSE IF is_error(body_fun) THEN body_fun
        ELSE [fn |-> "function_definition", vars |-> vars,
              locals |-> locals.items, body_fun |-> body_fun]

sequentially(fun1, fun2) == [fn |-> "sequentially", fun1 |-> fun1, fun2 |-> fun2]

RECURSIVE loop(_, _)
loop(first_fun, rest_funs) ==
    IF rest_funs = << >>
    THEN first_fun
    ELSE loop(sequentially(first_fun, Head(rest_funs)), Tail(rest_funs))

analyze_sequence(stmts) ==
    LET funs == [i \in 1..Len(stmts) |-> analyze(stmts[i])]
    IN  IF any_error(funs) THEN first_error(funs)
        ELSE IF funs = << >>
        THEN [fn |-> "empty_sequence"]
        ELSE loop(Head(funs), Tail(funs))

analyze_application(stmt) ==
    LET function_func == analyze(operator(stmt))
        arg_funcs == [i \in 1..Len(operands(stmt)) |-> analyze(operands(stmt)[i])]
    IN  IF is_error(function_func) THEN function_func
        ELSE IF any_error(arg_funcs) THEN first_error(arg_funcs)
        ELSE [fn |-> "application", function_func |-> function_func,
              arg_funcs |-> arg_funcs]

analyze_return_statement(stmt) ==
    LET retval_func == analyze(return_statement_expression(stmt))
    IN  IF is_error(retval_func) THEN retval_func
        ELSE [fn |-> "return_statement", retval_func |-> retval_func]

analyze_block(stmt) ==
    LET body == block_body(stmt)
        locals == local_names(body)
        body_func == analyze(body)
    IN  IF is_error(locals) THEN locals
        ELSE IF is_error(body_func) THEN body_func
        ELSE [fn |-> "block", locals |-> locals.items,
              temp_values |-> [i \in 1..Len(locals.items) |-> no_value_yet],
              body_func |-> body_func]

analyze(stmt) ==
    IF is_self_evaluating(stmt) THEN analyze_self_evaluating(stmt)
    ELSE IF is_name(stmt) THEN analyze_name(stmt)
    ELSE IF is_constant_declaration(stmt) THEN analyze_constant_declaration(stmt)
    ELSE IF is_conditional_expression(stmt) THEN analyze_conditional_expression(stmt)
    ELSE IF is_function_definition(stmt) THEN analyze_function_definition(stmt)
    ELSE IF is_sequence(stmt) THEN analyze_sequence(sequence_statements(stmt))
    ELSE IF is_block(stmt) THEN analyze_block(stmt)
    ELSE IF is_return_statement(stmt) THEN analyze_return_statement(stmt)
    ELSE IF is_application(stmt) THEN analyze_application(stmt)
    ELSE error(UnknownNodeKind, stmt)

(***************************************************************************)
(* Function values and return values are tagged lists of the host.         *)
(***************************************************************************)
make_compound_function(parameters, locals, body, env) ==
    [tag |-> "compound_function", parameters |-> parameters,
     locals |-> locals, body |-> body, env |-> env]
is_compound_function(f) == is_tagged_list(f, "compound_function")
function_parameters(f) == f.parameters
function_locals(f) == f.locals
function_body(f) == f.body
function_environment(f) == f.env

make_primitive_function(impl) == [tag |-> "primitive", impl |-> impl]
is_primitive_function(fun) == is_tagged_list(fun, "primitive")
primitive_implementation(fun) == fun.impl

make_return_value(content) == [tag |-> "return_value", content |-> content]
is_return_value(value) == is_tagged_list(value, "return_value")
return_value_content(value) == value.content

(* the host's coercion of a value to a boolean *)
is_true_coercing(x) ==
    x \notin {Bool(FALSE), Num(0), Str(""), Null, Undefined}

is_true(x) == x = Bool(TRUE)

(***************************************************************************)
(* The state.                                                              *)
(*   program  the syntax tree handed to eval_toplevel                      *)
(*   pc       "start", "exec", "done" (eval_toplevel returned result) or   *)
(*            "error" (error(...) was thrown: raised)                      *)
(*   ctl      [mode |-> "run", fun, env]: the executable fun is about to   *)
(*            be called on env; [mode |-> "value", val]: the executable    *)
(*            that ran last returned val; [mode |-> "apply", fun, args]:   *)
(*            execute_application is about to be called                    *)
(*   stack    the host's call stack: the closures waiting for a value      *)
(*   frames   the heap of frames; an environment is a list of frame ids    *)
(*   output   what display has shown                                       *)
(*   ev       history: what the step taken last did                        *)
(*   created  history: each function value with the environment that was   *)
(*            current when analyze_function_definition's closure made it   *)
(***************************************************************************)
VARIABLES program, pc, ctl, stack, frames, output, raised, result, ev, created

vars == <<program, pc, ctl, stack, frames, output, raised, result, ev, created>>

make_frame(names, values) == [names |-> names, values |-> values]
frame_names(frame) == frame.names
frame_values(frame) == frame.values

first_frame(env) == frames[Head(env)]
enclosing_environment(env) == Tail(env)
enclose_by(frame, env) == <<frame>> \o env
is_empty_environment(env) == env = << >>
the_empty_environment == << >>

(* set_head(head(vals), val) on the first slot of the innermost frame that *)
(* is named name: the heap after it                                        *)
RECURSIVE set_scan(_, _, _, _)
set_scan(name, val, names, i) ==
    IF i > Len(names)
    THEN error(NameNotFound, name)
    ELSE IF name = names[i]
         THEN [fn |-> "set_head", slot |-> i]
         ELSE set_scan(name, val, names, i + 1)

set_name_value(name, val, env) ==
    LET frame == first_frame(env)
        found == set_scan(name, val, frame_names(frame), 1)
    IN  IF is_error(found) THEN found
        ELSE [fn |-> "heap",
              frames |-> [frames EXCEPT ![Head(env)].values[found.slot].head = val]]

RECURSIVE env_loop(_, _)
RECURSIVE scan(_, _, _, _)
scan(name, names, vals, env) ==
    IF names = << >>
    THEN env_loop(name, enclosing_environment(env))
    ELSE IF name = Head(names)
         THEN Head(vals).head
         ELSE scan(name, Tail(names), Tail(vals), env)

(* an uninitialised slot taken for a missing one: the search goes on *)
env_loop_past_uninitialised(name, env) ==
    IF is_empty_environment(env)
    THEN error(UnboundName, name)
    ELSE LET frame == first_frame(env)
             value == scan(name, frame_names(frame), frame_values(frame), env)
         IN  IF is_error(value) THEN value
             ELSE IF value = no_value_yet
                  THEN env_loop(name, enclosing_environment(env))
                  ELSE value

env_loop(name, env) ==
    IF is_empty_environment(env)
    THEN error(UnboundName, name)
    ELSE LET frame == first_frame(env)
             value == scan(name, frame_names(frame), frame_values(frame), env)
         IN  IF is_error(value) THEN value
             ELSE IF value = no_value_yet
                  THEN error(UseBeforeInitialization, name)
                  ELSE value

lookup_name_value(name, env) == env_loop(name, env)

(* the frame extend_environment makes and the environment it returns; the  *)
(* frame gets the next free place of the heap                              *)
(* the two messages exchanged *)
extend_environment_misdirected(names, vals, base_env) ==
    LET is_variable == FALSE
    IN  IF Len(names) = Len(vals)
        THEN [fn |-> "environment",
              frame |-> make_frame(names,
                            [i \in 1..Len(vals) |->
                                [head |-> vals[i], tail |-> is_variable]]),
              env |-> enclose_by(Len(frames) + 1, base_env)]
        ELSE IF Len(names) > Len(vals)
             THEN error(TooManyArguments, names)
             ELSE error(TooFewArguments, names)

extend_environment(names, vals, base_env) ==
    LET is_variable == FALSE
    IN  IF Len(names) = Len(vals)
        THEN [fn |-> "environment",
              frame |-> make_frame(names,
                            [i \in 1..Len(vals) |->
                                [head |-> vals[i], tail |-> is_variable]]),
              env |-> enclose_by(Len(frames) + 1, base_env)]
        ELSE IF Len(names) < Len(vals)
             THEN error(TooManyArguments, names)
             ELSE error(TooFewArguments, names)

(***************************************************************************)
(* The global environment: one frame binding the primitive functions and   *)
(* the primitive constants.                                                *)
(***************************************************************************)
primitive_functions ==
    <<"display", "error", "+", "-", "*", "/", "%", "===", "!==",
      "<", "<=", ">", ">=", "!">>
math_PI == 314159
primitive_constants ==
    <<[name |-> "undefined", value |-> Undefined],
      [name |-> "math_PI", value |-> Num(math_PI)]>>

global_frame ==
    LET primitive_function_names == primitive_functions
        primitive_function_values ==
            [i \in 1..Len(primitive_functions) |->
                make_primitive_function(primitive_functions[i])]
        primitive_constant_names ==
            [i \in 1..Len(primitive_constants) |-> primitive_constants[i].name]
        primitive_constant_values ==
            [i \in 1..Len(primitive_constants) |-> primitive_constants[i].value]
        names == primitive_function_names \o primitive_constant_names
        vals == primitive_function_values \o primitive_constant_values
    IN  make_frame(names, [i \in 1..Len(vals) |-> [head |-> vals[i], tail |-> FALSE]])
the_global_environment == <<1>>

(***************************************************************************)
(* Primitive functions are applied by the host.  The arithmetic of the     *)
(* host is modelled on numbers; a case the host decides by coercion is a   *)
(* host value of its own kind.                                             *)
(***************************************************************************)
HostValue == [k |-> "host", v |-> 0]
arg(argument_list, i) == IF i <= Len(argument_list) THEN argument_list[i] ELSE Undefined

minus(x, y) ==
    IF is_number(x) /\ is_number(y) THEN Num(x.v - y.v)
    ELSE IF is_number(x) THEN Num(0 - x.v)
    ELSE HostValue

strict_equal(x, y) ==
    IF is_value(x) /\ is_value(y) THEN x.k = y.k /\ x.v = y.v
    ELSE x = y

apply_in_underlying_javascript(impl, argument_list) ==
    LET x == arg(argument_list, 1)
        y == arg(argument_list, 2)
        nums == is_number(x) /\ is_number(y)
    IN  CASE impl = "display" -> x
          [] impl = "error" -> error(HostError, x)
          [] impl = "+" -> IF nums THEN Num(x.v + y.v) ELSE HostValue
          [] impl = "-" -> minus(x, y)
          [] impl = "*" -> IF nums THEN Num(x.v * y.v) ELSE HostValue
          [] impl = "===" -> Bool(strict_equal(x, y))
          [] impl = "!==" -> Bool(~strict_equal(x, y))
          [] impl = "<" -> IF nums THEN Bool(x.v < y.v) ELSE HostValue
          [] impl = "<=" -> IF nums THEN Bool(x.v <= y.v) ELSE HostValue
          [] impl = ">" -> IF nums THEN Bool(x.v > y.v) ELSE HostValue
          [] impl = ">=" -> IF nums THEN Bool(x.v >= y.v) ELSE HostValue
          [] impl = "!" -> IF is_boolean(x) THEN Bool(~x.v) ELSE HostValue
          [] OTHER -> HostValue

apply_primitive_function(fun, argument_list) ==
    apply_in_underlying_javascript(primitive_implementation(fun), argument_list)

(***************************************************************************)
(* execute_application on a compound function: the names of the new frame, *)
(* the environment the body runs in, and the value of the call.            *)
(***************************************************************************)
call_names(fun) ==
    insert_all([i \in 1..Len(function_parameters(fun)) |->
                    name_of_name(function_parameters(fun)[i])],
               function_locals(fun))

(* the frame of the call chained onto the environment of the caller *)
call_environment_of_caller(fun, args) ==
    LET locals == function_locals(fun)
        names == call_names(fun)
        temp_values == [i \in 1..Len(locals) |-> no_value_yet]
        values == args \o temp_values
    IN  IF is_error(names) THEN names
        ELSE extend_environment(names.items, values, ctl.env)

call_environment(fun, args) ==
    LET locals == function_locals(fun)
        names == call_names(fun)
        temp_values == [i \in 1..Len(locals) |-> no_value_yet]
        values == args \o temp_values
    IN  IF is_error(names) THEN names
        ELSE extend_environment(names.items, values, function_environment(fun))

(* the value of the last statement of the body becomes the value of the call *)
call_result_of_last_statement(body_result) ==
    IF is_return_value(body_result)
    THEN return_value_content(body_result)
    ELSE body_result

call_result(body_result) ==
    IF is_return_value(body_result)
    THEN return_value_content(body_result)
    ELSE Undefined

(***************************************************************************)
(* Bounds of the model.                                                    *)
(***************************************************************************)
MaxFrames == 8

(***************************************************************************)
(* Steps.  Throw(e): error(...) was called; it unwinds the whole stack.    *)
(* Return(v): the running executable returns v to the closure on top of    *)
(* the stack.  Run(fun, env): fun(env) is called.                          *)
(***************************************************************************)
Throw(e) ==
    /\ pc' = "error"
    /\ raised' = e
    /\ ctl' = [mode |-> "halt"]
    /\ stack' = << >>

Return(v) == ctl' = [mode |-> "value", val |-> v]
Run(fun, env) == ctl' = [mode |-> "run", fun |-> fun, env |-> env]
Push(k) == stack' = <<k>> \o stack
Running(fn) == pc = "exec" /\ ctl.mode = "run" /\ ctl.fun.fn = fn
Returned(k) == pc = "exec" /\ ctl.mode = "value" /\ stack # << >> /\ Head(stack).k = k

evaluate(exp, env) ==
    LET fun == analyze(exp)
    IN  IF is_error(fun) THEN fun ELSE [mode |-> "run", fun |-> fun, env |-> env]

(* eval_toplevel, up to the call of the program block's executable *)
EvalToplevel ==
    /\ pc = "start"
    /\ LET program_block == make_block(program)
           started == evaluate(program_block, the_global_environment)
       IN  IF is_error(started)
           THEN Throw(started)
           ELSE /\ pc' = "exec"
                /\ ctl' = started
                /\ UNCHANGED <<stack, raised>>
    /\ ev' = [op |-> "eval_toplevel"]
    /\ UNCHANGED <<program, frames, output, result, created>>

(* the value is handed on without a look at it *)
ToplevelReturnUnchecked ==
    /\ pc = "exec" /\ ctl.mode = "value" /\ stack = << >>
    /\ pc' = "done"
    /\ result' = ctl.val
    /\ ctl' = [mode |-> "halt"]
    /\ ev' = [op |-> "toplevel_return", value |-> ctl.val]
    /\ UNCHANGED <<program, stack, raised, frames, output, created>>

(* eval_toplevel, from the return of the program block's executable *)
ToplevelReturn ==
    /\ pc = "exec" /\ ctl.mode = "value" /\ stack = << >>
    /\ IF is_return_value(ctl.val)
       THEN Throw(error(ReturnOutsideFunction, ctl.val)) /\ UNCHANGED result
       ELSE /\ pc' = "done"
            /\ result' = ctl.val
            /\ ctl' = [mode |-> "halt"]
            /\ UNCHANGED <<stack, raised>>
    /\ ev' = [op |-> "toplevel_return", value |-> ctl.val]
    /\ UNCHANGED <<program, frames, output, created>>

RunSelfEvaluating ==
    /\ Running("self_evaluating")
    /\ Return(ctl.fun.stmt)
    /\ ev' = [op |-> "self_evaluating", stmt |-> ctl.fun.stmt, env |-> ctl.env]
    /\ UNCHANGED <<program, pc, stack, frames, output, raised, result, created>>

RunName ==
    /\ Running("name")
    /\ LET value == lookup_name_value(name_of_name(ctl.fun.stmt), ctl.env)
       IN  IF is_error(value)
           THEN Throw(value)
           ELSE Return(value) /\ UNCHANGED <<pc, stack, raised>>
    /\ ev' = [op |-> "name", name |-> name_of_name(ctl.fun.stmt), env |-> ctl.env]
    /\ UNCHANGED <<program, frames, output, result, created>>

(* the closure of analyze_constant_declaration: vfun(env) *)
RunConstantDeclaration ==
    /\ Running("constant_declaration")
    /\ Push([k |-> "constant_declaration", name |-> ctl.fun.name, env |-> ctl.env])
    /\ Run(ctl.fun.vfun, ctl.env)
    /\ ev' = [op |-> "run", fn |-> ctl.fun.fn]
    /\ UNCHANGED <<program, pc, frames, output, raised, result, created>>

(* the closure of analyze_constant_declaration: set_name_value, return *)
SetNameValue ==
    /\ Returned("constant_declaration")
    /\ LET name == Head(stack).name
           env == Head(stack).env
           heap == set_name_value(name, ctl.val, env)
       IN  /\ IF is_error(heap)
              THEN Throw(heap) /\ UNCHANGED frames
              ELSE /\ frames' = heap.frames
                   /\ Return(Undefined)
                   /\ stack' = Tail(stack)
                   /\ UNCHANGED <<pc, raised>>
           /\ ev' = [op |-> "set_name_value", name |-> name, val |-> ctl.val,
                     env |-> env, thrown |-> is_error(heap)]
    /\ UNCHANGED <<program, output, result, created>>

(* the closure of analyze_conditional_expression: pfun(env) *)
RunConditionalExpression ==
    /\ Running("conditional_expression")
    /\ Push([k |-> "conditional_expression", cfun |-> ctl.fun.cfun,
             afun |-> ctl.fun.afun, env |-> ctl.env])
    /\ Run(ctl.fun.pfun, ctl.env)
    /\ ev' = [op |-> "run", fn |-> ctl.fun.fn]
    /\ UNCHANGED <<program, pc, frames, output, raised, result, created>>

conditional_branch(pred, cfun, afun) == IF is_true(pred) THEN cfun ELSE afun

(* the closure of analyze_conditional_expression: the branch *)
ChooseBranch ==
    /\ Returned("conditional_expression")
    /\ Run(conditional_branch(ctl.val, Head(stack).cfun, Head(stack).afun),
           Head(stack).env)
    /\ stack' = Tail(stack)
    /\ ev' = [op |-> "branch", pred |-> ctl.val, cfun |-> Head(stack).cfun,
              afun |-> Head(stack).afun, env |-> Head(stack).env]
    /\ UNCHANGED <<program, pc, frames, output, raised, result, created>>

RunFunctionDefinition ==
    /\ Running("function_definition")
    /\ LET f == make_compound_function(ctl.fun.vars, ctl.fun.locals,
                                       ctl.fun.body_fun, ctl.env)
       IN  /\ Return(f)
           /\ created' = created \cup {[fun |-> f, env |-> ctl.env]}
    /\ ev' = [op |-> "function_definition", env |-> ctl.env]
    /\ UNCHANGED <<program, pc, stack, frames, output, raised, result>>

RunEmptySequence ==
    /\ Running("empty_sequence")
    /\ Return(Undefined)
    /\ ev' = [op |-> "empty_sequence"]
    /\ UNCHANGED <<program, pc, stack, frames, output, raised, result, created>>

(* the closure of sequentially: fun1(env) *)
RunSequentially ==
    /\ Running("sequentially")
    /\ Push([k |-> "sequentially", fun2 |-> ctl.fun.fun2, env |-> ctl.env])
    /\ Run(ctl.fun.fun1, ctl.env)
    /\ ev' = [op |-> "run", fn |-> ctl.fun.fn]
    /\ UNCHANGED <<program, pc, frames, output, raised, result, created>>

(* the return value is not looked for: the next statement always runs *)
sequentially_rest_regardless(fun1_val, fun2, env) ==
    [mode |-> "run", fun |-> fun2, env |-> env]

sequentially_rest(fun1_val, fun2, env) ==
    IF is_return_value(fun1_val)
    THEN [mode |-> "value", val |-> fun1_val]
    ELSE [mode |-> "run", fun |-> fun2, env |-> env]

(* the closure of sequentially: return fun1_val, or fun2(env) *)
SequentiallyRest ==
    /\ Returned("sequentially")
    /\ ctl' = sequentially_rest(ctl.val, Head(stack).fun2, Head(stack).env)
    /\ stack' = Tail(stack)
    /\ ev' = [op |-> "sequentially", fun1_val |-> ctl.val,
              fun2 |-> Head(stack).fun2, env |-> Head(stack).env,
              callers |-> Tail(stack)]
    /\ UNCHANGED <<program, pc, frames, output, raised, result, created>>

(* the body runs in the environment of the block itself: no new frame *)
RunBlockInPlace ==
    /\ Running("block")
    /\ Run(ctl.fun.body_func, ctl.env)
    /\ ev' = [op |-> "block", env |-> ctl.env]
    /\ UNCHANGED <<program, pc, stack, frames, output, raised, result, created>>

RunBlock ==
    /\ Running("block")
    /\ Len(frames) < MaxFrames
    /\ LET extended == extend_environment(ctl.fun.locals, ctl.fun.temp_values, ctl.env)
       IN  IF is_error(extended)
           THEN Throw(extended) /\ UNCHANGED frames
           ELSE /\ frames' = Append(frames, extended.frame)
                /\ Run(ctl.fun.body_func, extended.env)
                /\ UNCHANGED <<pc, stack, raised>>
    /\ ev' = [op |-> "block", env |-> ctl.env]
    /\ UNCHANGED <<program, output, result, created>>

(* the closure of analyze_return_statement: retval_func(env) *)
RunReturnStatement ==
    /\ Running("return_statement")
    /\ Push([k |-> "return_statement"])
    /\ Run(ctl.fun.retval_func, ctl.env)
    /\ ev' = [op |-> "run", fn |-> ctl.fun.fn]
    /\ UNCHANGED <<program, pc, frames, output, raised, result, created>>

(* the closure of analyze_return_statement: make_return_value *)
MakeReturnValue ==
    /\ Returned("return_statement")
    /\ Return(make_return_value(ctl.val))
    /\ stack' = Tail(stack)
    /\ ev' = [op |-> "return_statement", content |-> ctl.val]
    /\ UNCHANGED <<program, pc, frames, output, raised, result, created>>

(* the closure of analyze_application: function_func(env) *)
RunApplication ==
    /\ Running("application")
    /\ Push([k |-> "operator", arg_funcs |-> ctl.fun.arg_funcs, env |-> ctl.env])
    /\ Run(ctl.fun.function_func, ctl.env)
    /\ ev' = [op |-> "run", fn |-> ctl.fun.fn]
    /\ UNCHANGED <<program, pc, frames, output, raised, result, created>>

(* map(arg_func => arg_func(env), arg_funcs), one operand at a time, and *)
(* then the call of execute_application                                  *)
operands_next(fun, done, rest, env) ==
    IF rest = << >>
    THEN [ctl |-> [mode |-> "apply", fun |-> fun, args |-> done, env |-> env],
          push |-> << >>]
    ELSE [ctl |-> [mode |-> "run", fun |-> Head(rest), env |-> env],
          push |-> <<[k |-> "operands", fun |-> fun, done |-> done,
                      rest |-> Tail(rest), env |-> env]>>]

OperatorEvaluated ==
    /\ Returned("operator")
    /\ LET next == operands_next(ctl.val, << >>, Head(stack).arg_funcs, Head(stack).env)
       IN  /\ ctl' = next.ctl
           /\ stack' = next.push \o Tail(stack)
    /\ ev' = [op |-> "operator", fun |-> ctl.val]
    /\ UNCHANGED <<program, pc, frames, output, raised, result, created>>

OperandEvaluated ==
    /\ Returned("operands")
    /\ LET k == Head(stack)
           next == operands_next(k.fun, Append(k.done, ctl.val), k.rest, k.env)
       IN  /\ ctl' = next.ctl
           /\ stack' = next.push \o Tail(stack)
    /\ ev' = [op |-> "operand", val |-> ctl.val]
    /\ UNCHANGED <<program, pc, frames, output, raised, result, created>>

(* execute_application on a primitive function *)
ApplyPrimitive ==
    /\ pc = "exec" /\ ctl.mode = "apply" /\ is_primitive_function(ctl.fun)
    /\ LET value == apply_primitive_function(ctl.fun, ctl.args)
       IN  IF is_error(value)
           THEN Throw(value) /\ UNCHANGED output
           ELSE /\ Return(value)
                /\ output' = IF primitive_implementation(ctl.fun) = "display"
                             THEN Append(output, arg(ctl.args, 1))
                             ELSE output
                /\ UNCHANGED <<pc, stack, raised>>
    /\ ev' = [op |-> "apply_primitive", fun |-> ctl.fun, args |-> ctl.args]
    /\ UNCHANGED <<program, frames, result, created>>

(* execute_application on a compound function, up to the call of the body *)
ApplyCompound ==
    /\ pc = "exec" /\ ctl.mode = "apply" /\ is_compound_function(ctl.fun)
    /\ Len(frames) < MaxFrames
    /\ LET extended == call_environment(ctl.fun, ctl.args)
       IN  IF is_error(extended)
           THEN Throw(extended) /\ UNCHANGED frames
           ELSE /\ frames' = Append(frames, extended.frame)
                /\ Run(function_body(ctl.fun), extended.env)
                /\ Push([k |-> "execute_application"])
                /\ UNCHANGED <<pc, raised>>
    /\ ev' = [op |-> "apply_compound", fun |-> ctl.fun, args |-> ctl.args,
              env |-> ctl.env]
    /\ UNCHANGED <<program, output, result, created>>

(* execute_application on a compound function, from the return of the body *)
ApplyReturn ==
    /\ Returned("execute_application")
    /\ Return(call_result(ctl.val))
    /\ stack' = Tail(stack)
    /\ ev' = [op |-> "apply_return", result |-> ctl.val, callers |-> Tail(stack)]
    /\ UNCHANGED <<program, pc, frames, output, raised, result, created>>

(* execute_application on a value that is no function *)
ApplyUnknown ==
    /\ pc = "exec" /\ ctl.mode = "apply"
    /\ ~is_primitive_function(ctl.fun) /\ ~is_compound_function(ctl.fun)
    /\ Throw(error(UnknownFunctionValueKind, ctl.fun))
    /\ ev' = [op |-> "apply_unknown", fun |-> ctl.fun, args |-> ctl.args]
    /\ UNCHANGED <<program, frames, output, result, created>>

(***************************************************************************)
(* The programs eval_toplevel is given.                                    *)
(***************************************************************************)
MaxSeqLen == 3

Display(e) == App(Name("display"), <<e>>)

RECURSIVE SeqsOver(_, _)
SeqsOver(S, n) ==
    IF n = 0 THEN {<< >>}
    ELSE LET shorter == SeqsOver(S, n - 1)
         IN  shorter \cup {Append(q, s) : q \in shorter, s \in S}

(* statements of a scope that declares, reads, shadows and returns x *)
ScopeStatements ==
    {Const("x", Num(1)),
     Const("x", Num(2)),
     Const("y", Name("x")),
     Display(Name("x")),
     Ret(Name("x")),
     make_block(make_sequence(<<Const("x", Num(3)), Display(Name("x"))>>))}

ScopeBodies == {make_sequence(q) : q \in SeqsOver(ScopeStatements, MaxSeqLen)}

(* a scope as the program, as an inner block, as the body of a function   *)
(* that is called, as the block of such a body, in a function never called *)
InBlock(b) ==
    make_sequence(<<Const("x", Num(0)), make_block(b), Display(Name("x"))>>)
InCalledFunction(b) ==
    make_sequence(<<Const("x", Num(0)), Const("f", Fun(<< >>, b)),
                    Display(App(Name("f"), << >>)), Display(Name("x"))>>)
InBlockOfCalledFunction(b) ==
    make_sequence(<<Const("f", Fun(<< >>, make_block(b))),
                    Display(App(Name("f"), << >>))>>)
InUncalledFunction(b) ==
    make_sequence(<<Const("f", Fun(<< >>, b)), Display(Num(1))>>)

ScopePrograms ==
    ScopeBodies
    \cup {InBlock(b) : b \in ScopeBodies}
    \cup {InCalledFunction(b) : b \in ScopeBodies}
    \cup {InBlockOfCalledFunction(b) : b \in ScopeBodies}
    \cup {InUncalledFunction(b) : b \in ScopeBodies}

(* a function that returns from inside sequences, blocks and conditionals, *)
(* and the same statements as the program                                 *)
ReturnStatements ==
    {Display(Num(1)),
     Ret(Num(2)),
     make_block(make_sequence(<<Display(Num(3)), Ret(Num(4)), Display(Num(5))>>)),
     Cond(Display(Bool(TRUE)), Ret(Num(6)), Num(0)),
     make_sequence(<<Ret(Num(7)), Display(Num(8))>>)}

ReturnBodies == {make_sequence(q) : q \in SeqsOver(ReturnStatements, MaxSeqLen)}

CalledThenMore(b) ==
    make_sequence(<<Const("f", Fun(<< >>, b)),
                    Display(App(Name("f"), << >>)), Display(Num(9))>>)

ReturnPrograms == ReturnBodies \cup {CalledThenMore(b) : b \in ReturnBodies}

(* literals, alone and in a block, a declaration and a function body *)
MaxNum == 2
Numbers == {Num(n) : n \in 0..MaxNum}
Literals == Numbers \cup {Bool(TRUE), Bool(FALSE), Str(""), Str("true"), Null}

LiteralIn(l) ==
    {l,
     make_block(l),
     make_sequence(<<Const("x", l), Name("x")>>),
     App(Fun(<<"x">>, Ret(l)), <<Num(0)>>)}

LiteralPrograms == UNION {LiteralIn(l) : l \in Literals}

(* conditionals on values of every kind; the branches show themselves *)
Predicates ==
    (Literals \ {Null})
    \cup {Name("undefined"), Name("display"), Fun(<< >>, Ret(Bool(TRUE))),
          App(Name("==="), <<Num(1), Num(1)>>), App(Name("!"), <<Bool(TRUE)>>),
          Display(Bool(TRUE))}
Branches == {Num(1), Display(Num(1)), Display(Num(2))}

ConditionalPrograms ==
    {Cond(p, c, a) : p \in Predicates, c \in Branches, a \in Branches}
    \cup {Cond(Cond(p, Bool(TRUE), Num(1)), Display(Num(1)), Display(Num(2)))
            : p \in Predicates}

(* calls of a function of 0..MaxParams parameters on 0..MaxArgs arguments *)
MaxParams == 2
MaxArgs == 3
ParameterLists == SeqsOver({"a", "b"}, MaxParams)
ArgumentLists == {[i \in 1..n |-> Num(i)] : n \in 0..MaxArgs}
ArityBodies ==
    {make_sequence(<<Display(Num(1)), Ret(Num(2))>>),
     make_sequence(<<Const("a", Display(Num(1))), Ret(Name("a"))>>),
     make_block(make_sequence(<<Const("a", Display(Num(1))), Ret(Name("a"))>>)),
     Ret(Display(Num(1)))}

ArityPrograms ==
    {make_sequence(<<Const("f", Fun(ps, b)), Display(App(Name("f"), as)),
                     Display(Num(9))>>)
        : ps \in ParameterLists, b \in ArityBodies, as \in ArgumentLists}

(* function values that leave the scope they were made in *)
(* returned from its maker, called where x is bound otherwise *)
ReturnedClosure(a, b, c) ==
    make_sequence(<<Const("x", a),
                    Const("mk", Fun(<< >>, make_sequence(
                        <<Const("x", b), Ret(Fun(<< >>, Ret(Name("x"))))>>))),
                    Const("f", App(Name("mk"), << >>)),
                    make_block(make_sequence(
                        <<Const("x", c), Display(App(Name("f"), << >>))>>))>>)

(* captures the parameter of its maker, called from another function *)
ParameterClosure(a, b) ==
    make_sequence(<<Const("mk", Fun(<<"x">>, Ret(Fun(<< >>, Ret(Name("x")))))),
                    Const("f", App(Name("mk"), <<a>>)),
                    Const("g", Fun(<<"x">>, Ret(App(Name("f"), << >>)))),
                    Display(App(Name("g"), <<b>>))>>)

(* passed as an argument and called by the receiver *)
PassedClosure(a, b) ==
    make_sequence(<<Const("x", a),
                    Const("call", Fun(<<"h", "x">>, Ret(App(Name("h"), << >>)))),
                    Display(App(Name("call"), <<Fun(<< >>, Ret(Name("x"))), b>>))>>)

(* made twice by the same maker: two frames, one body *)
TwoClosures(a, b, c) ==
    make_sequence(<<Const("mk", Fun(<<"x">>, Ret(Fun(<<"y">>,
                        Ret(App(Name("+"), <<Name("x"), Name("y")>>)))))),
                    Const("f", App(Name("mk"), <<a>>)),
                    Const("g", App(Name("mk"), <<b>>)),
                    Display(App(Name("f"), <<c>>)),
                    Display(App(Name("g"), <<c>>))>>)

(* recursion: the body finds f in the frame f was made in *)
Factorial(a) ==
    make_sequence(<<Const("f", Fun(<<"n">>, Ret(
                        Cond(App(Name("==="), <<Name("n"), Num(0)>>),
                             Num(1),
                             App(Name("*"), <<Name("n"),
                                 App(Name("f"), <<App(Name("-"),
                                     <<Name("n"), Num(1)>>)>>)>>))))),
                    Display(App(Name("f"), <<a>>))>>)

Forever ==
    make_sequence(<<Const("f", Fun(<< >>, Ret(App(Name("f"), << >>)))),
                    App(Name("f"), << >>)>>)

ClosurePrograms ==
    {ReturnedClosure(a, b, c) : a \in Numbers, b \in Numbers, c \in Numbers}
    \cup {ParameterClosure(a, b) : a \in Numbers, b \in Numbers}
    \cup {PassedClosure(a, b) : a \in Numbers, b \in Numbers}
    \cup {TwoClosures(a, b, c) : a \in Numbers, b \in Numbers, c \in Numbers}
    \cup {Factorial(a) : a \in Numbers}
    \cup {Forever}

(* nodes in places where the parser puts expressions only *)
Misplaced == {Const("x", Num(2)), Ret(Num(2)), Ret(Ret(Num(2))), Num(2), Name("x"),
              make_sequence(<<Const("x", Num(2)), Name("x")>>)}
Places(h) ==
    {h, Const("y", h), Cond(h, Num(1), Num(0)), Cond(Bool(TRUE), h, Num(0)),
     Ret(h), Display(h), App(h, << >>), App(Fun(<<"z">>, Ret(Name("z"))), <<h>>)}
MisplacedStatements == UNION {Places(h) : h \in Misplaced}

MisplacedPrograms ==
    {make_sequence(<<Const("x", Num(1)), s, Display(Name("x"))>>)
        : s \in MisplacedStatements}
    \cup {make_sequence(<<Const("f", Fun(<<"x">>, s)),
                          Display(App(Name("f"), <<Num(1)>>))>>)
            : s \in MisplacedStatements}
    \cup {make_sequence(<<Const("f", Fun(<<"x">>, make_sequence(<<s, Ret(Name("x"))>>))),
                          Display(App(Name("f"), <<Num(1)>>))>>)
            : s \in MisplacedStatements}

(* a literal as a statement, then a block that declares x twice *)
LiteralThenBlock(l) ==
    make_sequence(<<l, make_block(make_sequence(
                           <<Const("x", Num(1)), Const("x", Num(2))>>))>>)

Programs ==
    ScopePrograms \cup ReturnPrograms \cup LiteralPrograms \cup ConditionalPrograms
    \cup {LiteralThenBlock(l) : l \in Literals}
    \cup ArityPrograms \cup ClosurePrograms \cup MisplacedPrograms

InitWith(p) ==
    /\ program = p
    /\ pc = "start"
    /\ ctl = [mode |-> "halt"]
    /\ stack = << >>
    /\ frames = <<global_frame>>
    /\ output = << >>
    /\ raised = error("", "")
    /\ result = Undefined
    /\ ev = [op |-> "setup_environment"]
    /\ created = {}

Init == \E p \in Programs : InitWith(p)

Next ==
    \/ EvalToplevel
    \/ ToplevelReturn
    \/ RunSelfEvaluating
    \/ RunName
    \/ RunConstantDeclaration
    \/ SetNameValue
    \/ RunConditionalExpression
    \/ ChooseBranch
    \/ RunFunctionDefinition
    \/ RunEmptySequence
    \/ RunSequentially
    \/ SequentiallyRest
    \/ RunBlock
    \/ RunReturnStatement
    \/ MakeReturnValue
    \/ RunApplication
    \/ OperatorEvaluated
    \/ OperandEvaluated
    \/ ApplyPrimitive
    \/ ApplyCompound
    \/ ApplyReturn
    \/ ApplyUnknown

Spec == Init /\ [][Next]_vars

(***************************************************************************)
(* C1.  Closures capture the defining environment: the frame built for a   *)
(* call of a compound function is chained onto the environment that was    *)
(* current when the function value was made, whatever environment the call *)
(* is made from, and so a free name of the body has the value it has at    *)
(* the definition site.                                                    *)
(***************************************************************************)
FrameOfCallOnDefiningEnvironment ==
    (pc = "exec" /\ ev.op = "apply_compound") =>
        /\ ctl.mode = "run"
        /\ Head(ctl.env) = Len(frames)
        /\ \A c \in created :
              c.fun = ev.fun => enclosing_environment(ctl.env) = c.env

FreeNameOfDefinitionSite ==
    pc = "done" =>
        /\ \A a, b, c \in Numbers :
              program = ReturnedClosure(a, b, c) => output = <<b>>
        /\ \A a, b \in Numbers :
              /\ program = ParameterClosure(a, b) => output = <<a>>
              /\ program = PassedClosure(a, b) => output = <<a>>

ClosuresCaptureDefiningEnvironment ==
    FrameOfCallOnDefiningEnvironment /\ FreeNameOfDefinitionSite

(* a function returned by its maker is called from a block that binds x   *)
(* to another value than the maker's frame does                           *)
ClosureCalledElsewhere ==
    /\ pc = "exec" /\ ev.op = "apply_compound"
    /\ program = ReturnedClosure(Num(0), Num(1), Num(2))
    /\ ev.env # function_environment(ev.fun)
    /\ lookup_name_value("x", ev.env) = Num(2)
    /\ lookup_name_value("x", ctl.env) = Num(1)

(***************************************************************************)
(* The frames of env that hold name, by their place in env (1: innermost), *)
(* and the slot of name in such a frame.                                   *)
(***************************************************************************)
Holders(name, env) == {i \in 1..Len(env) : member(name, frames[env[i]].names)}
Innermost(S) == CHOOSE i \in S : \A j \in S : i <= j
SlotOf(name, f) ==
    LET at == {i \in 1..Len(frames[f].names) : frames[f].names[i] = name}
    IN  frames[f].values[Innermost(at)].head

(***************************************************************************)
(* C2.  A reference to a name whose slot in the innermost frame that holds *)
(* the name is still uninitialised raises UseBeforeInitialization; it does *)
(* not go on to an enclosing frame, and yields no value.                   *)
(***************************************************************************)
ForwardReferenceRaises ==
    (ev.op = "name" /\ Holders(ev.name, ev.env) # {}) =>
        LET f == ev.env[Innermost(Holders(ev.name, ev.env))]
        IN  SlotOf(ev.name, f) = no_value_yet =>
                /\ pc = "error"
                /\ raised = error(UseBeforeInitialization, ev.name)
                /\ ctl.mode = "halt"

(* the reference is made while an enclosing frame binds the name to a value *)
ForwardReferenceShadowsOuter ==
    /\ ev.op = "name" /\ pc = "error"
    /\ raised.msg = UseBeforeInitialization
    /\ \E i \in Holders(ev.name, ev.env) :
          /\ i > Innermost(Holders(ev.name, ev.env))
          /\ SlotOf(ev.name, ev.env[i]) = Num(0)

(***************************************************************************)
(* C3.  Arity checking is exact and directional.                           *)
(***************************************************************************)
Called == ev.op = "apply_compound"
ParameterCount == Len(function_parameters(ev.fun))
ArgumentCount == Len(ev.args)
NothingRuns == pc = "error" /\ ctl.mode = "halt" /\ stack = << >>
BodyRuns == pc = "exec" /\ ctl.mode = "run" /\ ctl.fun = function_body(ev.fun)
(* a parameter of the function called is also one of its local names *)
ParameterIsLocal ==
    \E i \in 1..ParameterCount :
        member(function_parameters(ev.fun)[i].name, function_locals(ev.fun))

(* C3 as claimed: for every compound function and every argument list,    *)
(* more arguments than parameters raise too many, fewer raise too few, no  *)
(* statement of the body runs then, and the body runs only on equal counts *)
ArityExactForEveryFunction ==
    Called =>
        /\ ArgumentCount > ParameterCount =>
              NothingRuns /\ raised.msg = TooManyArguments
        /\ ArgumentCount < ParameterCount =>
              NothingRuns /\ raised.msg = TooFewArguments
        /\ BodyRuns => ArgumentCount = ParameterCount

(* C3 as amended: the same for a function none of whose parameters is     *)
(* also a local name of its body; a call of a function with such a        *)
(* parameter raises DuplicateDeclaration before the counts are compared,   *)
(* whatever the counts, and no statement of its body runs                  *)
ArityExactUnlessParameterIsLocal ==
    Called =>
        /\ (~ParameterIsLocal /\ ArgumentCount > ParameterCount) =>
              NothingRuns /\ raised.msg = TooManyArguments
        /\ (~ParameterIsLocal /\ ArgumentCount < ParameterCount) =>
              NothingRuns /\ raised.msg = TooFewArguments
        /\ ParameterIsLocal =>
              NothingRuns /\ raised.msg = DuplicateDeclaration
        /\ BodyRuns <=> (~ParameterIsLocal /\ ArgumentCount = ParameterCount)

(* a call with one argument too many, and a body that would display *)
TooManyRaised ==
    /\ Called /\ NothingRuns
    /\ raised.msg = TooManyArguments
    /\ ArgumentCount = ParameterCount + 1
    /\ ParameterCount > 0
    /\ output = << >>

(***************************************************************************)
(* What the statements of ReturnStatements display when executed, whether  *)
(* they return and what; and so what a sequence of them displays and       *)
(* returns if a return ends the sequence at once.                          *)
(***************************************************************************)
Shows(s) ==
    CASE s = Display(Num(1)) -> <<Num(1)>>
      [] s = Ret(Num(2)) -> << >>
      [] is_block(s) -> <<Num(3)>>
      [] is_conditional_expression(s) -> <<Bool(TRUE)>>
      [] is_sequence(s) -> << >>
Returns(s) == s # Display(Num(1))
Returning(s) ==
    CASE s = Ret(Num(2)) -> Num(2)
      [] is_block(s) -> Num(4)
      [] is_conditional_expression(s) -> Num(6)
      [] is_sequence(s) -> Num(7)

RECURSIVE ShownUntilReturn(_)
ShownUntilReturn(q) ==
    IF q = << >> THEN << >>
    ELSE Shows(Head(q)) \o (IF Returns(Head(q)) THEN << >> ELSE ShownUntilReturn(Tail(q)))

RECURSIVE FirstReturned(_)
FirstReturned(q) ==
    IF q = << >> THEN Undefined
    ELSE IF Returns(Head(q)) THEN Returning(Head(q)) ELSE FirstReturned(Tail(q))

(***************************************************************************)
(* C4.  return short-circuits the rest of its sequence at any depth: when  *)
(* a statement of a sequence has yielded a return value, directly or out   *)
(* of a nested block, sequence or conditional, the sequence yields that    *)
(* same return value and runs no later statement; the call hands the       *)
(* content to its caller, whose own later statements still run.            *)
(***************************************************************************)
ReturnEndsSequence ==
    ev.op = "sequentially" =>
        /\ stack = ev.callers
        /\ IF is_return_value(ev.fun1_val)
           THEN ctl = [mode |-> "value", val |-> ev.fun1_val]
           ELSE ctl = [mode |-> "run", fun |-> ev.fun2, env |-> ev.env]

CallerGoesOn ==
    /\ (ev.op = "apply_return" /\ is_return_value(ev.result)) =>
          /\ stack = ev.callers
          /\ ctl = [mode |-> "value", val |-> return_value_content(ev.result)]
    /\ \A b \in ReturnBodies :
          (pc = "done" /\ program = CalledThenMore(b)) =>
              output = ShownUntilReturn(sequence_statements(b))
                       \o <<FirstReturned(sequence_statements(b)), Num(9)>>

ReturnShortCircuits == ReturnEndsSequence /\ CallerGoesOn

(* a return inside a block of the body: the later statement of the block, *)
(* and of the body, stay undone, and the statement after the call is done *)
ReturnFromNestedBlock ==
    /\ pc = "done"
    /\ \E s \in ReturnStatements :
          /\ is_block(s)
          /\ program = CalledThenMore(make_sequence(<<Display(Num(1)), s, Display(Num(1))>>))
    /\ output = <<Num(1), Num(3), Num(4), Num(9)>>

(***************************************************************************)
(* C5.  eval_toplevel runs the program as a block over the global          *)
(* environment; a return value as the value of that block raises           *)
(* ReturnOutsideFunction, and any other value is returned as it is.        *)
(***************************************************************************)
ProgramBlockValue ==
    /\ (ev.op = "eval_toplevel" /\ pc = "exec") =>
          /\ ctl.fun.fn = "block"
          /\ ctl.env = the_global_environment
    /\ ev.op = "toplevel_return" =>
          IF is_return_value(ev.value)
          THEN pc = "error" /\ raised.msg = ReturnOutsideFunction
          ELSE pc = "done" /\ result = ev.value
    /\ pc = "done" => ev.op = "toplevel_return" /\ ~is_return_value(result)

LastStatementValue ==
    \A b \in ReturnBodies :
        LET q == sequence_statements(b)
        IN  (program = b /\ pc \in {"done", "error"}) =>
                /\ output = ShownUntilReturn(q)
                /\ IF \E i \in 1..Len(q) : Returns(q[i])
                   THEN pc = "error" /\ raised.msg = ReturnOutsideFunction
                   ELSE pc = "done"
                        /\ result = (IF q = << >> THEN Undefined ELSE Num(1))

ToplevelRejectsReturn == ProgramBlockValue /\ LastStatementValue

(* a return in a block of the program, outside any function *)
ReturnInProgramBlock ==
    /\ pc = "error" /\ raised.msg = ReturnOutsideFunction
    /\ ev.op = "toplevel_return"
    /\ ev.value = make_return_value(Num(4))
    /\ output = <<Num(1), Num(3)>>

(***************************************************************************)
(* The nodes of a tree; the names declared by the constant declarations    *)
(* that are direct statements of a scope's body; the scopes (bodies of     *)
(* blocks and of function definitions) that declare a name twice.          *)
(***************************************************************************)
Children(n) ==
    IF is_constant_declaration(n) THEN {n.value}
    ELSE IF is_conditional_expression(n) THEN {n.pred, n.cons, n.alt}
    ELSE IF is_function_definition(n) THEN {n.body}
    ELSE IF is_sequence(n) THEN {n.stmts[i] : i \in 1..Len(n.stmts)}
    ELSE IF is_block(n) THEN {n.body}
    ELSE IF is_return_statement(n) THEN {n.expr}
    ELSE IF is_application(n)
         THEN {n.operator} \cup {n.operands[i] : i \in 1..Len(n.operands)}
    ELSE {}

RECURSIVE Nodes(_)
Nodes(n) == {n} \cup UNION {Nodes(c) : c \in Children(n)}

RECURSIVE Declared(_)
RECURSIVE DeclaredByAll(_)
DeclaredByAll(q) ==
    IF q = << >> THEN << >> ELSE Declared(Head(q)) \o DeclaredByAll(Tail(q))
Declared(body) ==
    IF is_sequence(body) THEN DeclaredByAll(body.stmts)
    ELSE IF is_constant_declaration(body) THEN <<body.name.name>>
    ELSE << >>

Repeats(q) == \E i, j \in 1..Len(q) : i < j /\ q[i] = q[j]
DeclaresTwice(n) ==
    \/ is_block(n) /\ Repeats(Declared(n.body))
    \/ is_function_definition(n) /\ Repeats(Declared(n.body))
HasDuplicateScope(tree) == \E n \in Nodes(tree) : DeclaresTwice(n)
HasNullLiteral(tree) == Null \in Nodes(tree)

NothingExecuted ==
    /\ pc \in {"start", "error"}
    /\ frames = <<global_frame>>
    /\ output = << >>
    /\ created = {}
    /\ stack = << >>
    /\ ctl.mode = "halt"

(***************************************************************************)
(* C6.  Two constant declarations of one name among the direct statements  *)
(* of a block or of a function body, entered at run time or not, make      *)
(* analysis raise DuplicateDeclaration, before any executable runs.        *)
(***************************************************************************)
DuplicateRaisedStatically ==
    HasDuplicateScope(make_block(program)) =>
        /\ NothingExecuted
        /\ pc = "error" =>
              ev.op = "eval_toplevel" /\ raised.msg = DuplicateDeclaration

(* C6, on the programs without a null literal (see C9) *)
DuplicateRaisedStaticallyWithoutNull ==
    (HasDuplicateScope(make_block(program)) /\ ~HasNullLiteral(program)) =>
        /\ NothingExecuted
        /\ pc = "error" =>
              ev.op = "eval_toplevel" /\ raised.msg = DuplicateDeclaration

(* the duplicate is in the body of a function that is never called *)
DuplicateInUncalledFunction ==
    /\ pc = "error" /\ raised.msg = DuplicateDeclaration
    /\ ev.op = "eval_toplevel"
    /\ is_sequence(program) /\ Len(program.stmts) = 2
    /\ program.stmts[2] = Display(Num(1))
    /\ DeclaresTwice(program.stmts[1].value)

(***************************************************************************)
(* C9.  Literal evaluation is the identity: a number, boolean, string or   *)
(* null literal evaluates to itself, in every environment, and raises no   *)
(* error.                                                                  *)
(***************************************************************************)
LiteralOfKinds(L) ==
    /\ ev.op = "self_evaluating" => ctl = [mode |-> "value", val |-> ev.stmt]
    /\ \A l \in L :
          program \in LiteralIn(l) =>
              /\ pc # "error"
              /\ pc = "done" => result = l

LiteralIsIdentity == LiteralOfKinds(Literals)

(* C9, on the number, boolean and string literals *)
LiteralIsIdentityExceptNull == LiteralOfKinds(Literals \ {Null})

(***************************************************************************)
(* C7.  Block scoping: a block runs its body on a frame of its own, a      *)
(* lookup yields the binding of the innermost frame that holds the name    *)
(* (the inner declaration shadows the outer one), a declaration writes to  *)
(* the innermost frame of its environment only, so no slot of an enclosing *)
(* frame changes, and after the block a lookup in the outer scope yields   *)
(* the outer value.                                                        *)
(***************************************************************************)
BlockOnOwnFrame ==
    (ev.op = "block" /\ pc = "exec") =>
        /\ ctl.env = <<Len(frames)>> \o ev.env
        /\ \A i \in 1..Len(frames[Len(frames)].values) :
              frames[Len(frames)].values[i].head = no_value_yet

InnermostBindingFound ==
    (ev.op = "name" /\ pc = "exec") =>
        /\ Holders(ev.name, ev.env) # {}
        /\ ctl = [mode |-> "value",
                  val |-> SlotOf(ev.name, ev.env[Innermost(Holders(ev.name, ev.env))])]

(* the program is { const x = 0; { ... } display(x); } and has finished *)
OuterValueAfterBlock ==
    (/\ is_sequence(program)
     /\ Len(sequence_statements(program)) = 3
     /\ is_block(sequence_statements(program)[2])
     /\ program = InBlock(block_body(sequence_statements(program)[2]))
     /\ pc = "done") =>
        /\ output[Len(output)] = Num(0)
        /\ SlotOf("x", 2) = Num(0)

OnlyInnermostFrameWritten ==
    \A f \in 1..Len(frames) :
        frames'[f] # frames[f] =>
            /\ Returned("constant_declaration")
            /\ f = Head(Head(stack).env)

BlockScoping ==
    /\ [](BlockOnOwnFrame /\ InnermostBindingFound /\ OuterValueAfterBlock)
    /\ [][OnlyInnermostFrameWritten]_vars

(* { const x = 0; { const x = 1; display(x); } display(x); } shows 1, 0 *)
InnerShadowsThenOuter ==
    /\ pc = "done"
    /\ program = InBlock(make_sequence(<<Const("x", Num(1)), Display(Name("x"))>>))
    /\ output = <<Num(1), Num(0)>>
    /\ SlotOf("x", 3) = Num(1)

(***************************************************************************)
(* C8.  A conditional evaluates its predicate once and then runs exactly   *)
(* one branch on the environment of the conditional: the consequent if and *)
(* only if the predicate's value is the boolean true, the alternative for  *)
(* every other value (false, numbers, strings, undefined, functions); no   *)
(* error is raised and the other branch does not run.                      *)
(***************************************************************************)
PredicateIsTrue(p) ==
    p \in {Bool(TRUE), App(Name("==="), <<Num(1), Num(1)>>), Display(Bool(TRUE))}

ShownByPredicate(p) == IF p = Display(Bool(TRUE)) THEN <<Bool(TRUE)>> ELSE << >>

BranchOf(p) == IF PredicateIsTrue(p) THEN Num(1) ELSE Num(2)

BranchByExactTrue ==
    ev.op = "branch" =>
        /\ pc = "exec"
        /\ ctl = [mode |-> "run",
                  fun |-> IF ev.pred = Bool(TRUE) THEN ev.cfun ELSE ev.afun,
                  env |-> ev.env]

OneBranchShown ==
    \A p \in Predicates :
        /\ program \in {Cond(p, Display(Num(1)), Display(Num(2))),
                        Cond(Cond(p, Bool(TRUE), Num(1)),
                             Display(Num(1)), Display(Num(2)))}
        /\ pc \in {"done", "error"}
        => /\ pc = "done"
           /\ output = ShownByPredicate(p) \o <<BranchOf(p)>>
           /\ result = BranchOf(p)

ConditionalOnExactTrue == BranchByExactTrue /\ OneBranchShown

(* 1 ? display(1) : display(2) shows 2 only *)
NumberTakesAlternative ==
    /\ program = Cond(Num(1), Display(Num(1)), Display(Num(2)))
    /\ pc = "done"
    /\ output = <<Num(2)>>
    /\ result = Num(2)

(***************************************************************************)
(* C10.  Slots are write-once: a slot changes only when a constant         *)
(* declaration completes, the slot is the one of the declared name in the  *)
(* innermost frame of the declaration's environment, and it held the       *)
(* uninitialised marker just before; no initialised slot (parameter,       *)
(* earlier constant, global binding) is ever overwritten, in any execution *)
(* of any syntax tree.                                                     *)
(***************************************************************************)
SlotWrittenOnce ==
    \A f \in 1..Len(frames) :
        \A i \in 1..Len(frames[f].values) :
            frames'[f].values[i] # frames[f].values[i] =>
                /\ Returned("constant_declaration")
                /\ f = Head(Head(stack).env)
                /\ frames[f].names[i] = Head(stack).name
                /\ frames[f].values[i].head = no_value_yet

SlotsAreWriteOnce == [][SlotWrittenOnce]_vars

(* the same, for the trees in which every constant declaration is a direct *)
(* statement of its scope                                                  *)
SlotsAreWriteOnceInStatementPosition ==
    [][program \notin MisplacedPrograms => SlotWrittenOnce]_vars

(* const x = 1; true ? (const x = 2) : 0; display(x);  shows 2 *)
InitialisedSlotOverwritten ==
    /\ program = make_sequence(<<Const("x", Num(1)),
                                 Cond(Bool(TRUE), Const("x", Num(2)), Num(0)),
                                 Display(Name("x"))>>)
    /\ pc = "done"
    /\ output = <<Num(2)>>

(***************************************************************************)
(* C11.  The names of a frame are pairwise distinct, in every frame ever   *)
(* created: the global frame, the frame of a block and the frame of a call *)
(* (parameters, then the direct local names of the body), also for a       *)
(* function whose parameter list repeats a name and for one whose          *)
(* parameter is also a local name of its body.                             *)
(***************************************************************************)
RepeatsParameter(n) ==
    /\ is_function_definition(n)
    /\ Repeats([i \in 1..Len(function_definition_parameters(n)) |->
                   name_of_name(function_definition_parameters(n)[i])])

FrameNamesUnique ==
    \A f \in 1..Len(frames) : ~Repeats(frame_names(frames[f]))

(* the same, for the programs in which no parameter list repeats a name *)
FrameNamesUniqueWithoutRepeatedParameter ==
    (\A n \in Nodes(program) : ~RepeatsParameter(n)) => FrameNamesUnique

(* ((a, a) => ...)(1, 2): the frame of the call holds a twice *)
CallFrameRepeatsParameter ==
    /\ ev.op = "apply_compound"
    /\ pc = "exec"
    /\ frame_names(frames[Len(frames)]) = <<"a", "a">>

(***************************************************************************)
(* C12.  A return value marker is never nested: the content of a marker is *)
(* never a marker, and so the value of an application, the value bound to  *)
(* a name and the value passed as an argument are never markers, in any    *)
(* execution of any syntax tree.                                           *)
(***************************************************************************)
MarkerContentIsValue ==
    (ctl.mode = "value" /\ is_return_value(ctl.val)) =>
        ~is_return_value(return_value_content(ctl.val))

ApplicationYieldsValue ==
    (ev.op = "apply_return" /\ pc = "exec") => ~is_return_value(ctl.val)

SlotsHoldValues ==
    \A f \in 1..Len(frames) :
        \A i \in 1..Len(frame_values(frames[f])) :
            ~is_return_value(frame_values(frames[f])[i].head)

ArgumentsAreValues ==
    ctl.mode = "apply" =>
        \A i \in 1..Len(ctl.args) : ~is_return_value(ctl.args[i])

ReturnValueNeverNested ==
    /\ MarkerContentIsValue
    /\ ApplicationYieldsValue
    /\ SlotsHoldValues
    /\ ArgumentsAreValues

(* the same, for the trees in which every return is a statement *)
ReturnValueNeverNestedInStatementPosition ==
    program \notin MisplacedPrograms => ReturnValueNeverNested

(* (x => return (return 2))(1) yields a marker, which display shows and   *)
(* hands on to the top level                                               *)
CallYieldsMarker ==
    /\ program = make_sequence(<<Const("f", Fun(<<"x">>, Ret(Ret(Num(2))))),
                                 Display(App(Name("f"), <<Num(1)>>))>>)
    /\ pc = "error"
    /\ raised.msg = ReturnOutsideFunction
    /\ output = <<make_return_value(Num(2))>>

(***************************************************************************)
(* C13.  The value of a call of a compound function is decided by an       *)
(* explicit return only: when the body yields a return value marker the    *)
(* call yields the content of the marker, and otherwise it yields          *)
(* undefined, whatever the last statement of the body evaluated to.        *)
(***************************************************************************)
OnlyDisplays(n) == make_sequence([i \in 1..n |-> Display(Num(1))])

CallYieldsContentOrUndefined ==
    ev.op = "apply_return" =>
        /\ pc = "exec"
        /\ stack = ev.callers
        /\ ctl = [mode |-> "value",
                  val |-> IF is_return_value(ev.result)
                          THEN return_value_content(ev.result)
                          ELSE Undefined]

FallingOffYieldsUndefined ==
    \A n \in 1..MaxSeqLen :
        (program = CalledThenMore(OnlyDisplays(n)) /\ pc = "done") =>
            output = [i \in 1..n |-> Num(1)] \o <<Undefined, Num(9)>>

ReturnedContentYielded ==
    \A n \in 0..(MaxSeqLen - 1) :
        (/\ program = CalledThenMore(make_sequence(
                          [i \in 1..n |-> Display(Num(1))] \o <<Ret(Num(2))>>))
         /\ pc = "done") =>
            output = [i \in 1..n |-> Num(1)] \o <<Num(2), Num(9)>>

CallResultOnlyByReturn ==
    /\ CallYieldsContentOrUndefined
    /\ FallingOffYieldsUndefined
    /\ ReturnedContentYielded

(* const f = () => { display(1); }; display(f()); display(9);  shows 1,   *)
(* undefined, 9: the body's last statement evaluated to 1                  *)
LastStatementValueDropped ==
    /\ program = CalledThenMore(OnlyDisplays(1))
    /\ pc = "done"
    /\ output = <<Num(1), Undefined, Num(9)>>

====
